---- MODULE Spec2Model ----
(***************************************************************************)
(* Model of image-web-resize: the two StringKeyValueStore implementations  *)
(* of string-kv-store.ts (RuntimeStringKeyValueStore and                   *)
(* StorageStringKeyValueStore) and processImageRequest.                    *)
(*                                                                         *)
(* JavaScript runs the body of an async function up to its first await     *)
(* when it is called, and resumes it after an await in a later turn of the *)
(* event loop.  Every action below is one such uninterrupted stretch of    *)
(* code: from the call, or from the await that has just been satisfied, to *)
(* the next await or to the return.                                        *)
(***************************************************************************)
EXTENDS Integers, Sequences, FiniteSets, TLC

\* Bounds of the model: the number of calls issued to a
\* RuntimeStringKeyValueStore and to a StorageStringKeyValueStore, and the
\* number of processImageRequest calls.
MaxCalls == 4
MaxStorageCalls == 2
MaxRuns == 2
\* The longest list of breakpoints and of densities of a request whose sizes
\* are consolidated.
MaxBreakpoints == 2
MaxDensities == 2

Keys == {"k1", "k2"}
Strings == {"a", "b"}

\* JavaScript's null and undefined, and the state of a promise not yet
\* settled; none of them is a stored string.
Null == "<null>"
Undefined == "<undefined>"
Pending == "<pending>"
NoPromise == "<no promise>"

VARIABLES
  kind,        \* which class the store under test is: "runtime" or "storage"
  data,        \* the store's map: key -> entry (a promise); no entry = not in DOMAIN
  calls,       \* the calls issued so far, each with its position in the code
  blob,        \* the content of the storage blob
  loadState,   \* StorageStringKeyValueStore.data: "unset", "loading" or "ready"
  loadErrors,  \* how often the load error hook ran
  saveErrors,  \* how often the save error hook ran
  reads,       \* how often storageBlob.readUtf8 was called
  req,         \* the ImageResizeRequest processed
  phase,       \* "idle": no processImageRequest call is running; "running"
  slots,       \* the transforms of the running call, one per breakpoint and density
  statsGeneratedUrls,  \* its map src -> isCached
  aspectRatio, \* its widest asset so far
  responses,   \* what the calls so far have returned
  data0,       \* the content of the cache store before the first call
  files        \* the file system: the bytes of the file at each path

ioVars == <<blob, loadState, loadErrors, saveErrors, reads>>
storeVars == <<kind, data, calls, ioVars>>
reqVars == <<req, phase, slots, statsGeneratedUrls, aspectRatio, responses, data0, files>>
vars == <<storeVars, reqVars>>

----------------------------------------------------------------------------
\* Promises held in the map.

\* Promise.resolve(v): a promise that is already settled with v.
ValEntry(v) == [t |-> "val", v |-> v, id |-> 0]
\* defer(), created by call c: settled when c settles it.
DeferEntry(c) == [t |-> "defer", v |-> Undefined, id |-> c]
\* What map[key] evaluates to when the key has no entry.
NoEntry == [t |-> "none", v |-> Undefined, id |-> 0]

EmptyMap == [k \in {} |-> NoEntry]

Lookup(m, k) == IF k \in DOMAIN m THEN m[k] ELSE NoEntry
Put(m, k, e) == [x \in DOMAIN m \cup {k} |-> IF x = k THEN e ELSE m[x]]
Remove(m, k) == [x \in DOMAIN m \ {k} |-> m[x]]

\* The state of the promise e refers to: Pending, or the value it settled with.
PromiseState(e) ==
  CASE e.t = "none" -> Undefined
    [] e.t = "val" -> e.v
    [] e.t = "defer" -> calls[e.id].promise

\* `await e` can continue.
Settled(e) == PromiseState(e) # Pending

----------------------------------------------------------------------------
\* The storage blob and the JSON document in it.
\*
\* A blob is missing (readUtf8 fails), holds text that is not JSON, or holds
\* a JSON document.  A document is [jt, mem]: jt is its JSON type, and mem,
\* for an object or an array, maps each member name (an array's indexes
\* "0", "1", ...) to a member [jt, s], s being the text of a string member.

JsonString(s) == [jt |-> "str", s |-> s]
JsonNull == [jt |-> "null", s |-> ""]
JsonNumber == [jt |-> "num", s |-> ""]
NoMembers == [k \in {} |-> JsonNull]

JsonDoc(jt, mem) == [st |-> "json", jt |-> jt, mem |-> mem]
BlobMissing == [st |-> "missing", jt |-> "", mem |-> NoMembers]
BlobNotJson == [st |-> "notjson", jt |-> "", mem |-> NoMembers]

\* JSON.stringify(Object.fromEntries(entries.filter(([_, v]) => v !== undefined)))
\* of save(): m maps each key to the value its promise settled with.
Stringify(m) ==
  JsonDoc("obj", [k \in {x \in DOMAIN m : m[x] # Undefined} |->
                    IF m[k] = Null THEN JsonNull ELSE JsonString(m[k])])

\* The try block of getData: read, JSON.parse and the two checks.  TRUE when
\* one of them throws.
LoadFails(b) ==
  \/ b.st # "json"                            \* readUtf8 or JSON.parse throws
  \/ b.jt = "null"                            \* !data
  \/ b.jt \notin {"obj", "arr"}               \* typeof data !== "object"
  \/ \E k \in DOMAIN b.mem : b.mem[k].jt # "str"   \* a value that is no string

\* The map getData resolves to.
LoadMap(b) ==
  IF LoadFails(b) THEN EmptyMap
  ELSE [k \in DOMAIN b.mem |-> ValEntry(b.mem[k].s)]

\* What the blob may hold when the store is constructed.
InitBlobs ==
  { BlobMissing, BlobNotJson,
    JsonDoc("null", NoMembers), JsonDoc("num", NoMembers), JsonDoc("str", NoMembers),
    JsonDoc("arr", NoMembers), JsonDoc("arr", [k \in {"0"} |-> JsonString("a")]),
    JsonDoc("obj", NoMembers),
    JsonDoc("obj", [k \in {"k1"} |-> JsonString("a")]),
    JsonDoc("obj", [k \in {"k1"} |-> JsonNumber]),
    JsonDoc("obj", [k \in {"k1", "k2"} |-> IF k = "k1" THEN JsonString("a") ELSE JsonNull]) }

----------------------------------------------------------------------------
\* Calls.

CallIds == 1..Len(calls)
Finished(c) == calls[c].pc \in {"returned", "threw"}
FinishedCalls == {c \in CallIds : Finished(c)}

NewCall(op, key, arg, pc, aw) ==
  [op |-> op, key |-> key, arg |-> arg, pc |-> pc,
   aw |-> aw,              \* the promise the call awaits / awaited last
   promise |-> NoPromise,  \* the state of the placeholder the call created
   ran |-> FALSE,          \* the call has invoked its factory
   res |-> Undefined,      \* the value the call returned
   snap |-> EmptyMap,      \* save(): the entries it awaits
   json |-> BlobMissing,   \* save(): the text it writes  
   updates |-> 0,          \* how often the call invoked onUpdate
   saveFailed |-> FALSE,   \* the write of the call's save failed
   after |-> FinishedCalls \* the calls that had finished when this one was issued
  ]

CanCall == Len(calls) < (IF kind = "runtime" THEN MaxCalls ELSE MaxStorageCalls)

----------------------------------------------------------------------------
\* RuntimeStringKeyValueStore.

\* get(key), up to `await this.data[key]`.
RtCallGet(k) ==
  /\ kind = "runtime" /\ CanCall
  /\ calls' = Append(calls, NewCall("get", k, Undefined, "await", Lookup(data, k)))
  /\ UNCHANGED <<kind, data, ioVars, reqVars>>

\* get(key), from the await to the return.
\* A get that would return what it found without waiting for it.
RtGetResume_NoWait(c) ==
  /\ kind = "runtime"
  /\ calls[c].op = "get" /\ calls[c].pc = "await"
  /\ calls' = [calls EXCEPT ![c].pc = "returned", ![c].res = PromiseState(calls[c].aw)]
  /\ UNCHANGED <<kind, data, ioVars, reqVars>>

RtGetResume(c) ==
  /\ kind = "runtime"
  /\ calls[c].op = "get" /\ calls[c].pc = "await"
  /\ Settled(calls[c].aw)
  /\ calls' = [calls EXCEPT ![c].pc = "returned", ![c].res = PromiseState(calls[c].aw)]
  /\ UNCHANGED <<kind, data, ioVars, reqVars>>

\* set(key, value): the whole body, which awaits nothing.
RtSet(k, v) ==
  /\ kind = "runtime" /\ CanCall
  /\ data' = IF v = Undefined THEN Remove(data, k) ELSE Put(data, k, ValEntry(v))
  /\ calls' = Append(calls, NewCall("set", k, v, "returned", NoEntry))
  /\ UNCHANGED <<kind, ioVars, reqVars>>

\* getOrCreate(key, factory), up to `await this.data[key]`.
RtCallGetOrCreate(k) ==
  /\ kind = "runtime" /\ CanCall
  /\ calls' = Append(calls, NewCall("getOrCreate", k, Undefined, "await", Lookup(data, k)))
  /\ UNCHANGED <<kind, data, ioVars, reqVars>>

\* getOrCreate, from the await: return the value found, or register a
\* placeholder and call the factory.
RtGocResume(c) ==
  /\ kind = "runtime"
  /\ calls[c].op = "getOrCreate" /\ calls[c].pc = "await"
  /\ Settled(calls[c].aw)
  /\ LET value == PromiseState(calls[c].aw) IN
       IF value = Undefined
       THEN /\ data' = Put(data, calls[c].key, DeferEntry(c))
            /\ calls' = [calls EXCEPT ![c].pc = "factory", ![c].promise = Pending,
                                       ![c].ran = TRUE]
       ELSE /\ calls' = [calls EXCEPT ![c].pc = "returned", ![c].res = value]
            /\ UNCHANGED data
  /\ UNCHANGED <<kind, ioVars, reqVars>>

\* getOrCreate, the factory has returned v: settle the placeholder, return v.
RtFactoryReturns(c, v) ==
  /\ kind = "runtime"
  /\ calls[c].op = "getOrCreate" /\ calls[c].pc = "factory"
  /\ calls' = [calls EXCEPT ![c].pc = "returned", ![c].promise = v, ![c].res = v]
  /\ UNCHANGED <<kind, data, ioVars, reqVars>>

\* A catch block that would not delete the entry.
RtFactoryThrows_KeepsEntry(c) ==
  /\ kind = "runtime"
  /\ calls[c].op = "getOrCreate" /\ calls[c].pc = "factory"
  /\ calls' = [calls EXCEPT ![c].pc = "threw", ![c].promise = Undefined]
  /\ UNCHANGED <<kind, data, ioVars, reqVars>>

\* getOrCreate, the factory has thrown: the catch block.
RtFactoryThrows(c) ==
  /\ kind = "runtime"
  /\ calls[c].op = "getOrCreate" /\ calls[c].pc = "factory"
  /\ data' = Remove(data, calls[c].key)
  /\ calls' = [calls EXCEPT ![c].pc = "threw", ![c].promise = Undefined]
  /\ UNCHANGED <<kind, ioVars, reqVars>>


----------------------------------------------------------------------------
\* StorageStringKeyValueStore, with the default options: onUpdate calls
\* save, and the error hooks log.

\* A getData that would remember the map only once the load has finished,
\* so that a call issued during the load reads the blob again.
StCall_ReloadsWhileLoading(op, k, arg) ==
  /\ kind = "storage" /\ CanCall
  /\ calls' = Append(calls, NewCall(op, k, arg, "getData", NoEntry))
  /\ IF loadState # "ready"
     THEN loadState' = "loading" /\ reads' = reads + 1
     ELSE UNCHANGED <<loadState, reads>>
  /\ UNCHANGED <<kind, data, blob, loadErrors, saveErrors, reqVars>>

\* get, set and getOrCreate, up to `await this.getData()`; getData starts
\* the load when this.data is not set.
StCall(op, k, arg) ==
  /\ kind = "storage" /\ CanCall
  /\ calls' = Append(calls, NewCall(op, k, arg, "getData", NoEntry))
  /\ IF loadState = "unset"
     THEN loadState' = "loading" /\ reads' = reads + 1
     ELSE UNCHANGED <<loadState, reads>>
  /\ UNCHANGED <<kind, data, blob, loadErrors, saveErrors, reqVars>>

\* The async function of getData: the blob has been read (or not); build
\* the map, or report the load error and build an empty one.
StLoadDone ==
  /\ kind = "storage" /\ loadState = "loading"
  /\ loadState' = "ready"
  /\ data' = LoadMap(blob)
  /\ loadErrors' = IF LoadFails(blob) THEN loadErrors + 1 ELSE loadErrors
  /\ UNCHANGED <<kind, calls, blob, saveErrors, reads, reqVars>>

\* get, from getData: return undefined, or await the entry.
StGetLookup(c) ==
  /\ kind = "storage" /\ loadState = "ready"
  /\ calls[c].op = "get" /\ calls[c].pc = "getData"
  /\ IF calls[c].key \in DOMAIN data
     THEN calls' = [calls EXCEPT ![c].pc = "await", ![c].aw = data[calls[c].key]]
     ELSE calls' = [calls EXCEPT ![c].pc = "returned", ![c].res = Undefined]
  /\ UNCHANGED <<kind, data, ioVars, reqVars>>

StGetResume(c) ==
  /\ kind = "storage"
  /\ calls[c].op = "get" /\ calls[c].pc = "await"
  /\ Settled(calls[c].aw)
  /\ calls' = [calls EXCEPT ![c].pc = "returned", ![c].res = PromiseState(calls[c].aw)]
  /\ UNCHANGED <<kind, data, ioVars, reqVars>>

\* set, from getData: delete the key (and call onUpdate if it was there),
\* or await the existing entry.
StSetLookup(c) ==
  /\ kind = "storage" /\ loadState = "ready"
  /\ calls[c].op = "set" /\ calls[c].pc = "getData"
  /\ IF calls[c].arg = Undefined
     THEN IF calls[c].key \in DOMAIN data
          THEN /\ data' = Remove(data, calls[c].key)
               /\ calls' = [calls EXCEPT ![c].pc = "save", ![c].updates = @ + 1,
                                         ![c].aw = Lookup(data, calls[c].key)]
          ELSE /\ calls' = [calls EXCEPT ![c].pc = "returned"]
               /\ UNCHANGED data
     ELSE /\ calls' = [calls EXCEPT ![c].pc = "await",
                                    ![c].aw = Lookup(data, calls[c].key)]
          /\ UNCHANGED data
  /\ UNCHANGED <<kind, ioVars, reqVars>>

\* A set that would store the value and call onUpdate also when the value
\* is the one already stored.
StSetResume_AlwaysUpdates(c) ==
  /\ kind = "storage"
  /\ calls[c].op = "set" /\ calls[c].pc = "await"
  /\ Settled(calls[c].aw)
  /\ data' = Put(data, calls[c].key, ValEntry(calls[c].arg))
  /\ calls' = [calls EXCEPT ![c].pc = "save", ![c].updates = @ + 1]
  /\ UNCHANGED <<kind, ioVars, reqVars>>

\* set, from `await data.get(key)`: return if the value is the same, else
\* store it and call onUpdate.
StSetResume(c) ==
  /\ kind = "storage"
  /\ calls[c].op = "set" /\ calls[c].pc = "await"
  /\ Settled(calls[c].aw)
  /\ IF PromiseState(calls[c].aw) = calls[c].arg
     THEN /\ calls' = [calls EXCEPT ![c].pc = "returned"]
          /\ UNCHANGED data
     ELSE /\ data' = Put(data, calls[c].key, ValEntry(calls[c].arg))
          /\ calls' = [calls EXCEPT ![c].pc = "save", ![c].updates = @ + 1]
  /\ UNCHANGED <<kind, ioVars, reqVars>>

\* getOrCreate, from getData to `await data.get(key)`.
StGocLookup(c) ==
  /\ kind = "storage" /\ loadState = "ready"
  /\ calls[c].op = "getOrCreate" /\ calls[c].pc = "getData"
  /\ calls' = [calls EXCEPT ![c].pc = "await", ![c].aw = Lookup(data, calls[c].key)]
  /\ UNCHANGED <<kind, data, ioVars, reqVars>>

\* getOrCreate, from `await data.get(key)`: return the value found, or
\* register a placeholder and call the factory.
StGocResume(c) ==
  /\ kind = "storage"
  /\ calls[c].op = "getOrCreate" /\ calls[c].pc = "await"
  /\ Settled(calls[c].aw)
  /\ LET existing == PromiseState(calls[c].aw) IN
       IF existing # Undefined
       THEN /\ calls' = [calls EXCEPT ![c].pc = "returned", ![c].res = existing]
            /\ UNCHANGED data
       ELSE /\ data' = Put(data, calls[c].key, DeferEntry(c))
            /\ calls' = [calls EXCEPT ![c].pc = "factory", ![c].promise = Pending,
                                       ![c].ran = TRUE]
  /\ UNCHANGED <<kind, ioVars, reqVars>>

\* getOrCreate, the factory has returned v: settle the placeholder and call
\* onUpdate, which calls save.
StFactoryReturns(c, v) ==
  /\ kind = "storage"
  /\ calls[c].op = "getOrCreate" /\ calls[c].pc = "factory"
  /\ calls' = [calls EXCEPT ![c].pc = "save", ![c].promise = v, ![c].updates = @ + 1]
  /\ UNCHANGED <<kind, data, ioVars, reqVars>>

\* getOrCreate, the factory has thrown: the catch block.
StFactoryThrows(c) ==
  /\ kind = "storage"
  /\ calls[c].op = "getOrCreate" /\ calls[c].pc = "factory"
  /\ data' = Remove(data, calls[c].key)
  /\ calls' = [calls EXCEPT ![c].pc = "threw", ![c].promise = Undefined]
  /\ UNCHANGED <<kind, ioVars, reqVars>>

\* save, from `await this.data`: list the entries and await each of them.
StSaveEntries(c) ==
  /\ kind = "storage"
  /\ calls[c].pc = "save"
  /\ calls' = [calls EXCEPT ![c].pc = "saveEntries", ![c].snap = data]
  /\ UNCHANGED <<kind, data, ioVars, reqVars>>

\* save, every listed entry has settled: build the text and start the write.
StSaveStringify(c) ==
  /\ kind = "storage"
  /\ calls[c].pc = "saveEntries"
  /\ \A k \in DOMAIN calls[c].snap : Settled(calls[c].snap[k])
  /\ calls' = [calls EXCEPT ![c].pc = "saveWrite",
                 ![c].json = Stringify([k \in DOMAIN calls[c].snap |->
                                          PromiseState(calls[c].snap[k])])]
  /\ UNCHANGED <<kind, data, ioVars, reqVars>>

\* What set and getOrCreate return once onUpdate has returned.
ReturnValue(c) == IF calls[c].op = "getOrCreate" THEN calls[c].promise ELSE Undefined

\* save, the write has succeeded; set or getOrCreate returns.
StWriteDone(c) ==
  /\ kind = "storage"
  /\ calls[c].pc = "saveWrite"
  /\ blob' = calls[c].json
  /\ calls' = [calls EXCEPT ![c].pc = "returned", ![c].res = ReturnValue(c)]
  /\ UNCHANGED <<kind, data, loadState, loadErrors, saveErrors, reads, reqVars>>

\* save, the write has failed: the catch block reports it; set or
\* getOrCreate returns.
\* A save that would let the write's error escape to set or getOrCreate,
\* whose catch block then deletes the entry.
StWriteFails_Rethrows(c) ==
  /\ kind = "storage"
  /\ calls[c].pc = "saveWrite"
  /\ data' = IF calls[c].op = "getOrCreate" THEN Remove(data, calls[c].key) ELSE data
  /\ calls' = [calls EXCEPT ![c].pc = "threw", ![c].saveFailed = TRUE]
  /\ UNCHANGED <<kind, ioVars, reqVars>>

StWriteFails(c) ==
  /\ kind = "storage"
  /\ calls[c].pc = "saveWrite"
  /\ saveErrors' = saveErrors + 1
  /\ calls' = [calls EXCEPT ![c].pc = "returned", ![c].res = ReturnValue(c),
                            ![c].saveFailed = TRUE]
  /\ UNCHANGED <<kind, data, blob, loadState, loadErrors, reads, reqVars>>

----------------------------------------------------------------------------
\* processImageRequest: the request and its pure parts.
\*
\* A density is held in tenths (15 is 1.5), sizeThreshold in hundredths, a
\* srcset entry's dpi in hundredths and the aspect ratio in 1/100000.

Breakpoint(maxWidth, imageWidth) == [maxWidth |-> maxWidth, imageWidth |-> imageWidth]
\* maxWidth: null
NullWidth == -1

\* The requests processed: breakpoints, densities and threshold.
Requests ==
  { \* two breakpoints, no width merged
    [breakpoints |-> <<Breakpoint(600, 300), Breakpoint(NullWidth, 1200)>>,
     pixelDensities |-> <<10, 20>>, sizeThreshold |-> 80],
    \* the two densities of each breakpoint merge into one width
    [breakpoints |-> <<Breakpoint(600, 300), Breakpoint(NullWidth, 1200)>>,
     pixelDensities |-> <<10, 20>>, sizeThreshold |-> 50],
    \* the fallback listed first, a fractional density
    [breakpoints |-> <<Breakpoint(NullWidth, 400), Breakpoint(500, 250)>>,
     pixelDensities |-> <<10, 15>>, sizeThreshold |-> 100],
    \* two source breakpoints of the same imageWidth
    [breakpoints |-> <<Breakpoint(600, 300), Breakpoint(900, 300), Breakpoint(NullWidth, 640)>>,
     pixelDensities |-> <<10>>, sizeThreshold |-> 90],
    \* two widths whose output files have the same name
    [breakpoints |-> <<Breakpoint(600, 301), Breakpoint(NullWidth, 305)>>,
     pixelDensities |-> <<10>>, sizeThreshold |-> 100],
    \* no fallback breakpoint
    [breakpoints |-> <<Breakpoint(600, 300)>>,
     pixelDensities |-> <<10, 20>>, sizeThreshold |-> 80] }

\* request.inputImage is a Buffer of bytes or the path of a file.
Buffer(bytes) == [type |-> "buffer", v |-> bytes]
Path(path) == [type |-> "path", v |-> path]
\* The bytes of the input image of the requests that are run to the end.
InputImage == "IMG"
ImageBytes == {InputImage, "IMG2"}
Paths == {"a.png", "b.png"}
InputImages == {Buffer(b) : b \in ImageBytes} \cup {Path(p) : p \in Paths}
FileSystems == [Paths -> ImageBytes]
\* A file system in which every path holds the input image.
SameFiles == [p \in Paths |-> InputImage]
\* createHash('sha256').update(x).digest('hex'), in the three parts used.
Sha256(x) == [dir |-> "9f", name |-> "86d08188", rest |-> "4c7d659a" \o x]
Hex(h) == h.dir \o h.name \o h.rest
PublicPathPrefix == "/img"

\* inputImage: request.inputImage if it is a Buffer, else the file read.
inputImageBytes(r, fs) ==
  IF r.inputImage.type = "path" THEN fs[r.inputImage.v] ELSE r.inputImage.v

\* rawHash of transformSingleImage: the hash of request.inputImage, which is
\* the bytes of a Buffer, or the characters of a path.
rawHashOf(r) == Sha256(r.inputImage.v)

\* Math.round(imageWidth * density)
RoundedWidth(imageWidth, density) == (imageWidth * density + 5) \div 10

\* A number as JavaScript prints it in a template string.
DensityText(d) ==
  IF d % 10 = 0 THEN ToString(d \div 10)
  ELSE ToString(d \div 10) \o "." \o ToString(d % 10)

sizeSpecKey(width, density) == ToString(width) \o "@" \o DensityText(density)

SizeSpec(width, density, actualWidth) ==
  [width |-> width, density |-> density, actualWidth |-> actualWidth]

\* allSizes, as pushed by the two loops: breakpoints outer, densities inner.
RECURSIVE AllSizesFrom(_, _, _)
AllSizesFrom(r, b, d) ==
  IF b > Len(r.breakpoints) THEN <<>>
  ELSE IF d > Len(r.pixelDensities) THEN AllSizesFrom(r, b + 1, 1)
  ELSE <<SizeSpec(r.breakpoints[b].imageWidth, r.pixelDensities[d],
                  RoundedWidth(r.breakpoints[b].imageWidth, r.pixelDensities[d]))>>
       \o AllSizesFrom(r, b, d + 1)

AllSizes(r) == AllSizesFrom(r, 1, 1)

\* x put into the sequence s, which is sorted by descending actualWidth,
\* behind every element that is not smaller (the sort is stable).
RECURSIVE InsertSorted(_, _)
InsertSorted(s, x) ==
  IF s = <<>> THEN <<x>>
  ELSE IF Head(s).actualWidth >= x.actualWidth THEN <<Head(s)>> \o InsertSorted(Tail(s), x)
  ELSE <<x>> \o s

\* A sort that would leave allSizes in the order of the two loops.
SortDescending_Unsorted(s) == s

\* allSizes.sort((a, b) => b.actualWidth - a.actualWidth)
RECURSIVE SortDescending(_)
SortDescending(s) ==
  IF s = <<>> THEN <<>>
  ELSE InsertSorted(SortDescending(SubSeq(s, 1, Len(s) - 1)), s[Len(s)])

\* A loop that would merge every size into the largest, whatever the threshold.
Consolidate_NoThreshold(sizes, i, last, threshold, acc) ==
  [k \in {sizeSpecKey(sizes[x].width, sizes[x].density) : x \in DOMAIN sizes} |->
     LET x == CHOOSE x \in DOMAIN sizes : sizeSpecKey(sizes[x].width, sizes[x].density) = k
     IN [sizes[x] EXCEPT !.actualWidth = sizes[1].actualWidth]]

\* The loop over the sorted sizes: sizes[i..], with lastUsedSize = last
\* (actualWidth 0: null) and the object built so far.
RECURSIVE Consolidate(_, _, _, _, _)
Consolidate(sizes, i, last, threshold, acc) ==
  IF i > Len(sizes) THEN acc
  ELSE LET size == sizes[i]
           key == sizeSpecKey(size.width, size.density)
       IN IF last.actualWidth # 0 /\ last.actualWidth * threshold <= size.actualWidth * 100
          THEN Consolidate(sizes, i + 1, last, threshold,
                           Put(acc, key, [size EXCEPT !.actualWidth = last.actualWidth]))
          ELSE Consolidate(sizes, i + 1, size, threshold, Put(acc, key, size))

NoSize == SizeSpec(0, 0, 0)

consolidatedSizes(r) ==
  Consolidate(SortDescending(AllSizes(r)), 1, NoSize, r.sizeThreshold,
              [k \in {} |-> NoSize])

\* resizeImage(inputImage, {width}): the codec, for the one input image, a
\* 16:9 picture: the output has the width asked for.
resizeImage(width) ==
  [ext |-> ".webp", width |-> width, height |-> (width * 9 + 8) \div 16]

\* The default output name, and the src made of it.
OutputName(rawHash, resized) ==
  rawHash.dir \o "/" \o rawHash.name \o "-" \o ToString(resized.width \div 10)
    \o "}" \o resized.ext

TransformedImageAsset(rawHash, resized) ==
  [height |-> resized.height, width |-> resized.width,
   src |-> PublicPathPrefix \o "/" \o OutputName(rawHash, resized)]

\* JSON.stringify(entry) of a TransformedImageAsset
AssetJson(a) ==
  "{\"height\":" \o ToString(a.height) \o ",\"width\":" \o ToString(a.width)
    \o ",\"src\":\"" \o a.src \o "\"}"

cacheKey(rawHash, maxWidth) == Hex(rawHash) \o "@" \o ToString(maxWidth) \o ":"

\* The widths a request renders.
ActualWidths(r) == {consolidatedSizes(r)[k].actualWidth : k \in DOMAIN consolidatedSizes(r)}

\* What the factory of transformSingleImage returns for a width.
FactoryEntry(maxWidth) ==
  AssetJson(TransformedImageAsset(rawHashOf(req), resizeImage(maxWidth)))

\* JSON.parse(entry), for an entry a factory of request r returned.
ParseAsset(r, entry) ==
  CHOOSE a \in {TransformedImageAsset(rawHashOf(r), resizeImage(w)) : w \in ActualWidths(r)} :
    AssetJson(a) = entry

----------------------------------------------------------------------------
\* processImageRequest, given a RuntimeStringKeyValueStore as
\* processedImageCacheStore and an input image the codec can resize.

NoRequest == [inputImage |-> Buffer(InputImage), breakpoints |-> <<>>,
              pixelDensities |-> <<>>, sizeThreshold |-> 100, sequential |-> FALSE]
NoStats == [s \in {} |-> FALSE]
\* aspectRatio = null
NoAspect == [width |-> 0, height |-> 0]

\* request.breakpoints.filter(b => b.maxWidth !== null), as indexes
RECURSIVE SourceIndexesFrom(_, _)
SourceIndexesFrom(r, b) ==
  IF b > Len(r.breakpoints) THEN <<>>
  ELSE (IF r.breakpoints[b].maxWidth # NullWidth THEN <<b>> ELSE <<>>)
       \o SourceIndexesFrom(r, b + 1)

sourceBreakpoints(r) == SourceIndexesFrom(r, 1)

HasFallback(r) == \E b \in DOMAIN r.breakpoints : r.breakpoints[b].maxWidth = NullWidth

\* request.breakpoints.find(b => b.maxWidth === null), as an index
fallbackBreakpoint(r) ==
  CHOOSE b \in DOMAIN r.breakpoints :
    /\ r.breakpoints[b].maxWidth = NullWidth
    /\ \A x \in 1..(b - 1) : r.breakpoints[x].maxWidth # NullWidth

\* The transforms of breakpoint b, one per density: batch 0 is the
\* fallback's, batch n the n-th source breakpoint's.
SlotsOf(r, batch, b) ==
  [d \in 1..Len(r.pixelDensities) |->
     [batch |-> batch, imageWidth |-> r.breakpoints[b].imageWidth,
      density |-> r.pixelDensities[d], st |-> "idle", call |-> 0, src |-> "", dpi |-> 0]]

RECURSIVE SourceSlotsFrom(_, _)
SourceSlotsFrom(r, n) ==
  IF n > Len(sourceBreakpoints(r)) THEN <<>>
  ELSE SlotsOf(r, n, sourceBreakpoints(r)[n]) \o SourceSlotsFrom(r, n + 1)

\* Every transform of a request, in the order the code reaches them: the
\* source breakpoints', then the fallback's.
AllSlots(r) == SourceSlotsFrom(r, 1) \o SlotsOf(r, 0, fallbackBreakpoint(r))

\* The cache key of a transform: its sizeSpec's actualWidth and the hash.
SlotWidth(r, slot) ==
  consolidatedSizes(r)[sizeSpecKey(slot.imageWidth, slot.density)].actualWidth
SlotKey(r, slot) == cacheKey(rawHashOf(r), SlotWidth(r, slot))

Idle(i) == slots[i].st = "idle"
Running(i) == slots[i].st = "running"
Done(i) == slots[i].st = "done"

\* A choice of promiseAll that would take promiseAllPrarallel in both modes.
ToStart_AlwaysParallel ==
  LET idle == {i \in DOMAIN slots : Idle(i)}
  IN IF idle = {} \/ \E i \in DOMAIN slots : Running(i) THEN {}
     ELSE IF \E i \in idle : slots[i].batch # 0
          THEN {i \in idle : slots[i].batch # 0}
          ELSE idle

\* The transforms the code starts next.  promiseAllSequential starts one
\* when the one before has returned; promiseAllPrarallel starts a whole
\* batch: all source breakpoints' transforms at once, and the fallback's
\* when those have returned.
ToStart ==
  LET idle == {i \in DOMAIN slots : Idle(i)}
      first == CHOOSE i \in idle : \A j \in idle : i <= j
  IN IF idle = {} \/ \E i \in DOMAIN slots : Running(i) THEN {}
     ELSE IF req.sequential THEN {first}
     ELSE IF \E i \in idle : slots[i].batch # 0
          THEN {i \in idle : slots[i].batch # 0}
          ELSE idle

\* The n-th smallest element of a set of numbers.
RECURSIVE Nth(_, _)
Nth(S, n) ==
  LET m == CHOOSE x \in S : \A y \in S : x <= y
  IN IF n = 1 THEN m ELSE Nth(S \ {m}, n - 1)

\* The view a reader has of the store: the value each entry settled with.
View(m) == [k \in DOMAIN m |-> PromiseState(m[k])]

\* What a processImageRequest call returns, with the mode it ran in, what
\* the store held when it was called, and the number of factories it ran.
NewResponse(sequential, state) ==
  [state |-> state, sequential |-> sequential, start |-> View(data),
   sources |-> <<>>, img |-> <<>>, aspect |-> 0, generated |-> 0, cached |-> 0,
   factories |-> 0]

\* A call that would look for the fallback only when the source breakpoints
\* have been transformed.
StartRequest_LateFallbackCheck(sequential) ==
  /\ phase = "idle" /\ Len(responses) < MaxRuns
  /\ req' = [req EXCEPT !.sequential = sequential]
  /\ statsGeneratedUrls' = NoStats
  /\ aspectRatio' = NoAspect
  /\ phase' = "running"
  /\ slots' = IF HasFallback(req) THEN AllSlots(req) ELSE SourceSlotsFrom(req, 1)
  /\ responses' = Append(responses, NewResponse(sequential, "running"))
  /\ UNCHANGED <<storeVars, data0, files>>

\* processImageRequest is called: consolidate, split the breakpoints, and
\* throw if none is the fallback.
StartRequest(sequential) ==
  /\ phase = "idle" /\ Len(responses) < MaxRuns
  /\ req' = [req EXCEPT !.sequential = sequential]
  /\ statsGeneratedUrls' = NoStats
  /\ aspectRatio' = NoAspect
  /\ IF HasFallback(req)
     THEN /\ phase' = "running"
          /\ slots' = AllSlots(req)
          /\ responses' = Append(responses, NewResponse(sequential, "running"))
     ELSE /\ responses' = Append(responses, NewResponse(sequential, "threw"))
          /\ UNCHANGED <<phase, slots>>
  /\ UNCHANGED <<storeVars, data0, files>>

\* Each transform in ToStart calls transformSingleImage, which calls
\* getOrCreate, which runs up to `await this.data[key]`.
Dispatch ==
  /\ phase = "running" /\ ToStart # {}
  /\ LET n == Cardinality(ToStart)
         base == Len(calls)
     IN /\ calls' = calls \o
             [j \in 1..n |->
                NewCall("getOrCreate", SlotKey(req, slots[Nth(ToStart, j)]), Undefined,
                        "await", Lookup(data, SlotKey(req, slots[Nth(ToStart, j)])))]
        /\ slots' = [i \in DOMAIN slots |->
             IF i \in ToStart
             THEN [slots[i] EXCEPT !.st = "running",
                     !.call = base + Cardinality({x \in ToStart : x <= i})]
             ELSE slots[i]]
  /\ UNCHANGED <<kind, data, ioVars, req, phase, statsGeneratedUrls, aspectRatio,
                 responses, data0, files>>

\* The factory of transformSingleImage has rendered and written the asset of
\* transform i, and returns its entry.
CodecReturns(i) ==
  /\ phase = "running" /\ Running(i)
  /\ RtFactoryReturns(slots[i].call, FactoryEntry(SlotWidth(req, slots[i])))

\* getOrCreate has returned to transform i: note the src as cached or not,
\* compute the density, and keep the widest asset for the aspect ratio.
SlotFinish(i) ==
  /\ phase = "running" /\ Running(i)
  /\ calls[slots[i].call].pc = "returned"
  /\ LET c == slots[i].call
         isCached == ~calls[c].ran
         asset == ParseAsset(req, calls[c].res)
     IN /\ statsGeneratedUrls' = Put(statsGeneratedUrls, asset.src, isCached)
        /\ aspectRatio' =
             IF aspectRatio = NoAspect \/ aspectRatio.width < asset.width
             THEN [width |-> asset.width, height |-> asset.height]
             ELSE aspectRatio
        /\ slots' = [slots EXCEPT ![i].st = "done", ![i].src = asset.src,
                       ![i].dpi = (asset.width * 100) \div slots[i].imageWidth]
  /\ UNCHANGED <<storeVars, req, phase, responses, data0, files>>

ImageSetAsset(slot) == [src |-> slot.src, dpi |-> slot.dpi]

\* A srcset that would keep every image.
getUniqueImages_KeepsAll(images) == images

RECURSIVE getUniqueImages(_)
getUniqueImages(images) ==
  IF images = <<>> THEN <<>>
  ELSE LET front == getUniqueImages(SubSeq(images, 1, Len(images) - 1))
           image == images[Len(images)]
       IN IF \E x \in DOMAIN front : front[x].src = image.src
          THEN front ELSE Append(front, image)

\* The srcset of a batch: its transforms' results by index, made unique.
RECURSIVE BatchImages(_, _)
BatchImages(batch, i) ==
  IF i > Len(slots) THEN <<>>
  ELSE (IF slots[i].batch = batch THEN <<ImageSetAsset(slots[i])>> ELSE <<>>)
       \o BatchImages(batch, i + 1)

transformForDensities(batch) == getUniqueImages(BatchImages(batch, 1))

\* Math.round(ratio * 100000), in 1/100000
Aspect(a) == (2 * a.width * 100000 + a.height) \div (2 * a.height)

CountStats(flag) ==
  Cardinality({s \in DOMAIN statsGeneratedUrls : statsGeneratedUrls[s] = flag})

\* generated: [...statsGeneratedUrls.values()].filter(x => x).length
Generated == CountStats(TRUE)
\* cached: [...statsGeneratedUrls.values()].filter(x => !x).length
Cached == CountStats(FALSE)

\* Every transform has returned: processImageRequest returns.
Respond ==
  /\ phase = "running" /\ \A i \in DOMAIN slots : Done(i)
  /\ phase' = "idle"
  /\ responses' = [responses EXCEPT ![Len(responses)] =
       [@ EXCEPT
          !.state = "returned",
          !.sources = [n \in 1..Len(sourceBreakpoints(req)) |->
                         [w |-> req.breakpoints[sourceBreakpoints(req)[n]].maxWidth,
                          srcset |-> transformForDensities(n)]],
          !.img = transformForDensities(0),
          !.aspect = Aspect(aspectRatio),
          !.generated = Generated, !.cached = Cached,
          !.factories = Cardinality({i \in DOMAIN slots : calls[slots[i].call].ran})]]
  /\ UNCHANGED <<storeVars, req, slots, statsGeneratedUrls, aspectRatio, data0, files>>

\* The next call is given a store that holds what the first call's held.
NewStore ==
  /\ phase = "idle" /\ responses # <<>> /\ Len(responses) < MaxRuns
  /\ data' = data0
  /\ UNCHANGED <<kind, calls, ioVars, reqVars>>

\* A cache that holds the entries of the widths in W.
CacheOf(W) ==
  LET keyOf == [w \in W |-> cacheKey(rawHashOf(req), w)]
  IN [k \in {keyOf[w] : w \in W} |->
        ValEntry(FactoryEntry(CHOOSE w \in W : keyOf[w] = k))]

InitReq ==
  /\ kind = "runtime"
  /\ calls = <<>>
  /\ blob = BlobMissing /\ loadState = "unset"
  /\ loadErrors = 0 /\ saveErrors = 0 /\ reads = 0
  /\ req \in {[inputImage |-> Buffer(InputImage), breakpoints |-> r.breakpoints,
               pixelDensities |-> r.pixelDensities, sizeThreshold |-> r.sizeThreshold,
               sequential |-> FALSE] : r \in Requests}
  /\ files = SameFiles
  /\ data0 \in {CacheOf(W) : W \in SUBSET ActualWidths(req)}
  /\ data = data0
  /\ phase = "idle" /\ slots = <<>>
  /\ statsGeneratedUrls = NoStats /\ aspectRatio = NoAspect
  /\ responses = <<>>

NextReq ==
  \/ \E sequential \in BOOLEAN : StartRequest(sequential)
  \/ Dispatch
  \/ \E c \in CallIds : RtGocResume(c)
  \/ \E i \in DOMAIN slots : CodecReturns(i)
  \/ \E i \in DOMAIN slots : SlotFinish(i)
  \/ Respond
  \/ NewStore

SpecReq == InitReq /\ [][NextReq]_vars

----------------------------------------------------------------------------
\* The consolidation of sizes under any request: processImageRequest is
\* called with any lists of breakpoints and densities and any threshold.

ImageWidths == {100, 125, 150, 200, 301}
PixelDensities == {10, 15, 20}
SizeThresholds == {50, 80, 100}
SourceMaxWidth == 600

\* The lists of breakpoints: each with at most one fallback, or none.
BreakpointLists ==
  UNION {{[b \in 1..n |-> Breakpoint(IF b = f THEN NullWidth ELSE SourceMaxWidth, w[b])] :
            w \in [1..n -> ImageWidths], f \in 0..n} : n \in 1..MaxBreakpoints}

DensityLists == UNION {[1..n -> PixelDensities] : n \in 1..MaxDensities}

SizeRequests ==
  {[inputImage |-> Buffer(InputImage), breakpoints |-> b, pixelDensities |-> d,
    sizeThreshold |-> t, sequential |-> FALSE] :
     b \in BreakpointLists, d \in DensityLists, t \in SizeThresholds}

InitSizes ==
  /\ kind = "runtime"
  /\ calls = <<>>
  /\ blob = BlobMissing /\ loadState = "unset"
  /\ loadErrors = 0 /\ saveErrors = 0 /\ reads = 0
  /\ req \in SizeRequests /\ files = SameFiles
  /\ data0 = EmptyMap /\ data = EmptyMap
  /\ phase = "idle" /\ slots = <<>>
  /\ statsGeneratedUrls = NoStats /\ aspectRatio = NoAspect
  /\ responses = <<>>

NextSizes == \E sequential \in BOOLEAN : StartRequest(sequential)

SpecSizes == InitSizes /\ [][NextSizes]_vars

----------------------------------------------------------------------------
\* The cache keys under any input image: processImageRequest is called with
\* the input given as a Buffer or as a path, on any content of the files,
\* and starts its transforms.

InitKey ==
  /\ kind = "runtime"
  /\ calls = <<>>
  /\ blob = BlobMissing /\ loadState = "unset"
  /\ loadErrors = 0 /\ saveErrors = 0 /\ reads = 0
  /\ req \in {[inputImage |-> i, breakpoints |-> r.breakpoints,
               pixelDensities |-> r.pixelDensities, sizeThreshold |-> r.sizeThreshold,
               sequential |-> FALSE] : i \in InputImages, r \in Requests}
  /\ files \in FileSystems
  /\ data0 = EmptyMap /\ data = EmptyMap
  /\ phase = "idle" /\ slots = <<>>
  /\ statsGeneratedUrls = NoStats /\ aspectRatio = NoAspect
  /\ responses = <<>>

NextKey ==
  \/ \E sequential \in BOOLEAN : StartRequest(sequential)
  \/ Dispatch

SpecKey == InitKey /\ [][NextKey]_vars

----------------------------------------------------------------------------
\* The store under any callers: each call is issued at any moment, and each
\* factory returns any value, or throws.

SetValues == Strings \cup {Null, Undefined}
FactoryValues == Strings \cup {Null}

Init ==
  /\ kind \in {"runtime", "storage"}
  /\ data = EmptyMap
  /\ calls = <<>>
  /\ blob \in IF kind = "storage" THEN InitBlobs ELSE {BlobMissing}
  /\ loadState = "unset"
  /\ loadErrors = 0 /\ saveErrors = 0 /\ reads = 0
  /\ req = NoRequest /\ phase = "idle" /\ slots = <<>>
  /\ statsGeneratedUrls = NoStats /\ aspectRatio = NoAspect
  /\ responses = <<>> /\ data0 = EmptyMap /\ files = SameFiles

Next ==
  \/ \E k \in Keys : RtCallGet(k)
  \/ \E k \in Keys, v \in SetValues : RtSet(k, v)
  \/ \E k \in Keys : RtCallGetOrCreate(k)
  \/ \E c \in CallIds : RtGetResume(c)
  \/ \E c \in CallIds : RtGocResume(c)
  \/ \E c \in CallIds, v \in FactoryValues : RtFactoryReturns(c, v)
  \/ \E c \in CallIds : RtFactoryThrows(c)
  \/ \E k \in Keys : StCall("get", k, Undefined)
  \/ \E k \in Keys, v \in SetValues : StCall("set", k, v)
  \/ \E k \in Keys : StCall("getOrCreate", k, Undefined)
  \/ StLoadDone
  \/ \E c \in CallIds : StGetLookup(c)
  \/ \E c \in CallIds : StGetResume(c)
  \/ \E c \in CallIds : StSetLookup(c)
  \/ \E c \in CallIds : StSetResume(c)
  \/ \E c \in CallIds : StGocLookup(c)
  \/ \E c \in CallIds : StGocResume(c)
  \/ \E c \in CallIds, v \in FactoryValues : StFactoryReturns(c, v)
  \/ \E c \in CallIds : StFactoryThrows(c)
  \/ \E c \in CallIds : StSaveEntries(c)
  \/ \E c \in CallIds : StSaveStringify(c)
  \/ \E c \in CallIds : StWriteDone(c)
  \/ \E c \in CallIds : StWriteFails(c)

Spec == Init /\ [][Next]_vars

----------------------------------------------------------------------------
\* Properties of the two stores (checked under Spec).

Goc(c) == calls[c].op = "getOrCreate"
OnKey(k) == {c \in CallIds : calls[c].key = k}
\* The calls that have invoked their factory for key k.
Invoked(k) == {c \in OnKey(k) : calls[c].ran}
\* What a reader of the store gets for key k.
Stored(k) == PromiseState(Lookup(data, k))

\* C1 (single-flight): when two or more getOrCreate calls for one key, none
\* of which finds a stored value, are issued before any of them has
\* finished, and no factory throws, the factory is invoked at most once,
\* and exactly once with every call returning the same value when all have
\* returned.
C1_SingleFlight ==
  \A k \in Keys :
    LET G == OnKey(k) IN
    ( /\ Cardinality(G) >= 2
      /\ \A c \in G : /\ Goc(c)
                      /\ calls[c].after \cap G = {}
                      /\ calls[c].aw.t # "val"
                      /\ calls[c].pc # "threw" )
    => /\ Cardinality(Invoked(k)) <= 1
       /\ (\A c \in G : calls[c].pc = "returned")
            => /\ Cardinality(Invoked(k)) = 1
               /\ \A c, d \in G : calls[c].res = calls[d].res

\* C5 (joiners share the failure): a getOrCreate call that found the
\* placeholder of a call whose factory then threw does not invoke its own
\* factory, and throws as well.
C5_JoinersShareFailure ==
  \A c \in CallIds :
    ( /\ Goc(c) /\ calls[c].aw.t = "defer"
      /\ calls[calls[c].aw.id].pc = "threw" )
    => /\ ~calls[c].ran
       /\ Finished(c) => calls[c].pc = "threw"

\* The calls for the key of c other than c and d.
Others(c, d) == OnKey(calls[c].key) \ {c, d}

\* C4 (retry after failure): a getOrCreate call whose factory threw has
\* thrown to its caller and leaves no entry for its key (as long as no other
\* call writes the key); a getOrCreate call for the key issued after it
\* invokes its own factory and, when that returns a value, returns the value
\* and leaves it stored.
C4_RetryAfterFailure ==
  \A c \in CallIds :
    (Goc(c) /\ calls[c].ran /\ calls[c].promise = Undefined)
    => /\ calls[c].pc = "threw"
       /\ (\A x \in Others(c, c) : calls[x].op # "set" /\ ~calls[x].ran)
            => calls[c].key \notin DOMAIN data
       /\ \A d \in CallIds :
            ( /\ Goc(d) /\ calls[d].key = calls[c].key /\ c \in calls[d].after
              /\ Others(c, d) = {} )
            => /\ calls[d].pc \notin {"getData", "await"} => calls[d].ran
               /\ calls[d].pc = "returned"
                    => /\ calls[d].res = calls[d].promise
                       /\ calls[d].res # Undefined
                       /\ Stored(calls[d].key) = calls[d].res

\* A failed factory, and a later getOrCreate for the key that has returned
\* the value of its own factory.
C4_Witness ==
  \E c, d \in CallIds :
    /\ Goc(c) /\ calls[c].pc = "threw"
    /\ Goc(d) /\ calls[d].key = calls[c].key /\ c \in calls[d].after
    /\ Others(c, d) = {}
    /\ calls[d].pc = "returned" /\ calls[d].ran
    /\ Stored(calls[d].key) = calls[d].res

\* The value a call has put into the store.
Written(c) == IF calls[c].op = "set" THEN calls[c].arg ELSE calls[c].promise

\* C8 (save failure is non-fatal): a set or getOrCreate call whose save
\* failed to write has returned normally (getOrCreate with its factory's
\* value), the failure went to the save error hook, the value is still in
\* the store, and a later get for the key returns it and a later
\* getOrCreate returns it without invoking its factory (as long as no
\* other call writes the key).
C8_SaveFailureNonFatal ==
  /\ saveErrors = Cardinality({c \in CallIds : calls[c].saveFailed})
  /\ \A c \in CallIds :
       calls[c].saveFailed
       => /\ calls[c].pc = "returned"
          /\ calls[c].res = ReturnValue(c)
          /\ Goc(c) => calls[c].res # Undefined
          /\ \A d \in CallIds :
               ( /\ Written(c) # Undefined
                 /\ calls[d].key = calls[c].key /\ c \in calls[d].after
                 /\ calls[d].op # "set" /\ Others(c, d) = {} )
               => /\ Stored(calls[c].key) = Written(c)
                  /\ ~calls[d].ran
                  /\ calls[d].pc # "threw"
                  /\ calls[d].pc = "returned" => calls[d].res = Written(c)

\* A getOrCreate whose save failed, and a later get that returned its value.
C8_Witness ==
  \E c, d \in CallIds :
    /\ Goc(c) /\ calls[c].saveFailed /\ calls[c].pc = "returned"
    /\ calls[d].op = "get" /\ calls[d].key = calls[c].key /\ c \in calls[d].after
    /\ calls[d].pc = "returned" /\ calls[d].res = calls[c].res

\* C9 (get waits for an in-flight computation): a get call that found a
\* placeholder has not returned while the placeholder's factory is running,
\* and returns what the placeholder settled with: the factory's value, or
\* undefined when the factory threw; never a pending placeholder.
C9_GetAwaitsInFlight ==
  \A g \in CallIds :
    (calls[g].op = "get" /\ calls[g].pc = "returned")
    => /\ calls[g].res # Pending
       /\ calls[g].aw.t = "defer"
            => LET o == calls[g].aw.id IN
               /\ calls[o].pc # "factory"
               /\ calls[o].promise # Pending
               /\ calls[g].res = calls[o].promise

\* A get issued before the getOrCreate whose placeholder it found had
\* finished, which has returned the factory's value.
C9_Witness ==
  \E g \in CallIds :
    /\ calls[g].op = "get" /\ calls[g].pc = "returned"
    /\ calls[g].aw.t = "defer"
    /\ calls[g].aw.id \notin calls[g].after
    /\ calls[g].res = calls[calls[g].aw.id].promise
    /\ calls[g].res \in Strings

\* C10 (per-key granularity): a getOrCreate call whose factory has returned
\* does not wait for the placeholder of another key.
C10_PerKeyGranularity ==
  \A c \in CallIds :
    (Goc(c) /\ calls[c].pc = "saveEntries")
    => \A k \in DOMAIN calls[c].snap :
         k # calls[c].key => Settled(calls[c].snap[k])

\* The call whose save wrote the blob last.
Wrote(c) == calls[c].pc = "returned" /\ calls[c].updates > 0 /\ ~calls[c].saveFailed

\* The entries a save waited for, without those that settled with undefined.
SavedView(c) ==
  [k \in {x \in DOMAIN calls[c].snap : PromiseState(calls[c].snap[x]) # Undefined} |->
     PromiseState(calls[c].snap[k])]

\* C6 (persistence round trip): once a save has written the blob, a fresh
\* store that loads the blob reports no load error and holds the entries
\* the save wrote.
C6_RoundTrip ==
  \A c \in CallIds :
    (Wrote(c) /\ blob = calls[c].json)
    => /\ ~LoadFails(blob)
       /\ View(LoadMap(blob)) = SavedView(c)

\* The blob holds a JSON object whose values are all strings.
StringObject(b) ==
  b.st = "json" /\ b.jt = "obj" /\ \A k \in DOMAIN b.mem : b.mem[k].jt = "str"

\* C7 (load failure is non-fatal): when the blob cannot be read or is not a
\* JSON object of strings, the load error hook has run once the load is
\* over, the map holds only what calls have put into it, and no call throws
\* unless its factory threw.
C7_LoadFailureNonFatal ==
  ( /\ kind = "storage" /\ loadState = "ready"
    /\ \A c \in CallIds : ~Wrote(c)
    /\ ~StringObject(blob) )
  => /\ loadErrors = 1
     /\ \A k \in DOMAIN data : \E c \in OnKey(k) : calls[c].op = "set" \/ calls[c].ran
     /\ \A c \in CallIds : calls[c].pc = "threw" => calls[c].ran

\* The call is past the point where it calls onUpdate, if it does.
PastUpdate(c) == calls[c].pc \in {"save", "saveEntries", "saveWrite", "returned"}
\* The factory of the call has returned a value.
FactorySucceeded(c) == Goc(c) /\ calls[c].ran /\ calls[c].promise \notin {Pending, Undefined}

\* C15, as claimed (update hook fires on every successful write): every set
\* call that has completed, and every getOrCreate call that has completed
\* after its factory returned a value, has invoked onUpdate exactly once.
C15_UpdateOnEveryWrite ==
  \A c \in CallIds :
    ( /\ kind = "storage" /\ calls[c].pc = "returned"
      /\ calls[c].op = "set" \/ FactorySucceeded(c) )
    => calls[c].updates = 1

\* C15, amended (update hook fires on every write that changes the store):
\* no call invokes onUpdate more than once; a getOrCreate call invokes it
\* exactly when its factory has returned a value; a set call invokes it
\* exactly when it changes the map, that is when its value is not absent
\* and differs from what the key's entry settled with, or its value is
\* absent and the key had an entry; a get never invokes it.
C15_UpdateOnEveryChange ==
  \A c \in CallIds :
    /\ calls[c].updates <= 1
    /\ calls[c].updates = 1
       => /\ kind = "storage" /\ PastUpdate(c)
          /\ calls[c].op = "set" \/ FactorySucceeded(c)
    /\ (kind = "storage" /\ FactorySucceeded(c)) => calls[c].updates = 1
    /\ (kind = "storage" /\ calls[c].pc = "returned" /\ calls[c].op = "set")
       => (calls[c].updates = 1) =
            (IF calls[c].arg = Undefined THEN calls[c].aw # NoEntry
             ELSE PromiseState(calls[c].aw) # calls[c].arg)

\* A set that stored a value and invoked onUpdate, and a later set of the
\* same value that returned without invoking it.
C15_Witness ==
  \E c, d \in CallIds :
    /\ kind = "storage"
    /\ calls[c].op = "set" /\ calls[d].op = "set" /\ c \in calls[d].after
    /\ calls[c].key = calls[d].key /\ calls[c].arg = calls[d].arg
    /\ calls[c].arg \in Strings
    /\ calls[c].pc = "returned" /\ calls[c].updates = 1
    /\ calls[d].pc = "returned" /\ calls[d].updates = 0

\* C16 (late joiner reuses the placeholder): a getOrCreate call that was
\* issued before another getOrCreate call for the key had finished and that
\* found that call's placeholder does not invoke its own factory and returns
\* the value the other call's factory returned, and so does every
\* getOrCreate call for the key issued after the other call has finished,
\* provided that factory returned a value and no set was called for the key.
C16_LateJoinerReuses ==
  \A o, j \in CallIds :
    ( /\ Goc(o) /\ Goc(j) /\ o # j
      /\ calls[j].aw = DeferEntry(o) /\ o \notin calls[j].after
      /\ FactorySucceeded(o)
      /\ \A x \in OnKey(calls[o].key) : calls[x].op # "set" )
    => /\ ~calls[j].ran
       /\ calls[j].pc = "returned" => calls[j].res = calls[o].promise
       /\ \A d \in OnKey(calls[o].key) :
            (Goc(d) /\ o \in calls[d].after)
            => /\ ~calls[d].ran
               /\ calls[d].pc = "returned" => calls[d].res = calls[o].promise

\* C19 (load once): on a StorageStringKeyValueStore the blob is read once,
\* by the first call, however many calls are issued and whether or not the
\* load has finished when they are; and all calls work on one map: a value
\* a set has stored is what a get for the key issued after it returns (as
\* long as no other call writes the key).
C19_LoadOnce ==
  kind = "storage" =>
    /\ reads = (IF calls = <<>> THEN 0 ELSE 1)
    /\ loadErrors <= 1
    /\ \A c, d \in CallIds :
         ( /\ calls[c].op = "set" /\ calls[d].op = "get"
           /\ calls[c].key = calls[d].key /\ c \in calls[d].after
           /\ Others(c, d) = {} /\ calls[d].pc = "returned" )
         => calls[d].res = calls[c].arg

\* Two calls issued before the load had finished, a set and a get that
\* returned the value the set stored, with the blob read once.
C19_Witness ==
  /\ kind = "storage" /\ reads = 1 /\ Len(calls) = 2
  /\ \A c \in CallIds : calls[c].after = {} /\ calls[c].pc = "returned"
  /\ \E c, d \in CallIds :
       /\ calls[c].op = "set" /\ calls[c].arg \in Strings
       /\ calls[d].op = "get" /\ calls[d].key = calls[c].key
       /\ calls[d].res = calls[c].arg

\* C20 (a completed set is not undone by a concurrent factory): when the
\* factory of a getOrCreate call completes, by returning or by throwing,
\* while the key holds a value that a completed set has stored in place of
\* the call's placeholder, the key holds that value afterwards.
C20_SetSurvivesFactory ==
  [][\A g \in CallIds :
       ( /\ Goc(g) /\ calls[g].pc = "factory" /\ calls'[g].pc # "factory"
         /\ Lookup(data, calls[g].key).t = "val"
         /\ \E c \in OnKey(calls[g].key) :
              /\ calls[c].op = "set" /\ calls[c].pc = "returned"
              /\ calls[c].arg # Undefined
              /\ calls[c].arg = Stored(calls[g].key) )
       => Lookup(data', calls[g].key) = Lookup(data, calls[g].key)]_vars

----------------------------------------------------------------------------
\* Properties of the consolidation of sizes (checked under SpecSizes).

\* processImageRequest has been called, and has consolidated the sizes.
Consolidated == responses # <<>>
\* The unconsolidated widths of the requested pairs.
RequestedWidths(r) == {AllSizes(r)[x].actualWidth : x \in DOMAIN AllSizes(r)}

\* C11 (consolidation never shrinks a width): every requested (imageWidth,
\* density) pair has an entry in the consolidated map, every entry's
\* actualWidth is at least the rounded imageWidth * density of its own
\* pair, and is the unconsolidated width of some requested pair.
C11_NeverShrinks ==
  Consolidated =>
    LET sizes == consolidatedSizes(req) IN
    /\ \A x \in DOMAIN AllSizes(req) :
         sizeSpecKey(AllSizes(req)[x].width, AllSizes(req)[x].density) \in DOMAIN sizes
    /\ \A k \in DOMAIN sizes :
         /\ k = sizeSpecKey(sizes[k].width, sizes[k].density)
         /\ sizes[k].actualWidth >= RoundedWidth(sizes[k].width, sizes[k].density)
         /\ sizes[k].actualWidth \in RequestedWidths(req)

\* A request in which a pair is merged into a strictly larger width.
C11_Witness ==
  /\ Consolidated
  /\ \E k \in DOMAIN consolidatedSizes(req) :
       LET size == consolidatedSizes(req)[k]
       IN size.actualWidth > RoundedWidth(size.width, size.density)

\* The requested pairs have pairwise distinct unconsolidated widths.
DistinctWidths(r) ==
  \A x, y \in DOMAIN AllSizes(r) :
    AllSizes(r)[x].actualWidth = AllSizes(r)[y].actualWidth
    => /\ AllSizes(r)[x].width = AllSizes(r)[y].width
       /\ AllSizes(r)[x].density = AllSizes(r)[y].density

\* C12 (no merging at threshold 1): with sizeThreshold = 1 and pairwise
\* distinct unconsolidated widths, every entry of the consolidated map has
\* the unconsolidated width of its own pair, and the widths to render are
\* the unconsolidated widths.
C12_NoMergingAtOne ==
  (Consolidated /\ req.sizeThreshold = 100 /\ DistinctWidths(req)) =>
    LET sizes == consolidatedSizes(req) IN
    /\ \A k \in DOMAIN sizes :
         sizes[k].actualWidth = RoundedWidth(sizes[k].width, sizes[k].density)
    /\ ActualWidths(req) = RequestedWidths(req)

\* A request of threshold 1 with four pairs of distinct widths.
C12_Witness ==
  /\ Consolidated /\ req.sizeThreshold = 100 /\ DistinctWidths(req)
  /\ Cardinality(RequestedWidths(req)) = 4
  /\ Cardinality(ActualWidths(req)) = 4

----------------------------------------------------------------------------
\* Properties of processImageRequest (checked under SpecReq).

Returned(i) == responses[i].state = "returned"

\* The cache keys a request asks the store for.
NeededKeys(r) == {cacheKey(rawHashOf(r), w) : w \in ActualWidths(r)}

\* The distinct src values of a response.
SrcsOf(images) == {images[x].src : x \in DOMAIN images}
DistinctSrcs(response) ==
  SrcsOf(response.img)
    \cup UNION {SrcsOf(response.sources[n].srcset) : n \in DOMAIN response.sources}

\* What processImageRequest returns to its caller.
Output(response) ==
  <<response.sources, response.img, response.aspect, response.generated, response.cached>>

\* C2 (cache hit counting): a second processImageRequest call for the same
\* request, given the store that holds every entry of the first call,
\* returns generated = 0 and cached = the number of distinct src values,
\* and runs no factory.
C2_CacheHitCounting ==
  \A i \in DOMAIN responses :
    ( /\ i > 1 /\ Returned(i - 1) /\ Returned(i)
      /\ NeededKeys(req) \subseteq DOMAIN responses[i].start )
    => /\ responses[i].generated = 0
       /\ responses[i].cached = Cardinality(DistinctSrcs(responses[i]))
       /\ responses[i].factories = 0

\* C3 (mode equivalence): two processImageRequest calls for the same request
\* that start from the same cache content return the same response,
\* whichever of them is sequential and however the transforms of a parallel
\* one interleave.
C3_ModeEquivalence ==
  \A i, j \in DOMAIN responses :
    (Returned(i) /\ Returned(j) /\ responses[i].start = responses[j].start)
    => Output(responses[i]) = Output(responses[j])

\* The srcsets of a response, each with the batch it was made from.
Srcsets(response) ==
  {[batch |-> 0, images |-> response.img]}
    \cup {[batch |-> n, images |-> response.sources[n].srcset] : n \in DOMAIN response.sources}
\* The transforms of a batch: of one breakpoint, in pixelDensities order.
BatchSlots(batch) == {i \in DOMAIN slots : slots[i].batch = batch}

\* C13 (srcset dedup): when processImageRequest has returned, every srcset
\* of the response has at most one entry per src, holds every src rendered
\* for its breakpoint, in the order of the densities, and the entry of a src
\* is the one of the first density rendered to that src.
C13_SrcsetDedup ==
  (phase = "idle" /\ responses # <<>> /\ Returned(Len(responses))) =>
    \A set \in Srcsets(responses[Len(responses)]) :
      LET images == set.images
          first(src) == CHOOSE i \in BatchSlots(set.batch) :
                          /\ slots[i].src = src
                          /\ \A j \in BatchSlots(set.batch) : slots[j].src = src => i <= j
      IN /\ \A x, y \in DOMAIN images : images[x].src = images[y].src => x = y
         /\ SrcsOf(images) = {slots[i].src : i \in BatchSlots(set.batch)}
         /\ \A x \in DOMAIN images : images[x] = ImageSetAsset(slots[first(images[x].src)])
         /\ \A x, y \in DOMAIN images : x < y => first(images[x].src) < first(images[y].src)

\* A returned response with a srcset of one entry made from two densities
\* that were rendered to the same src.
C13_Witness ==
  /\ phase = "idle" /\ responses # <<>> /\ Returned(Len(responses))
  /\ \E i, j \in DOMAIN slots :
       /\ i < j /\ slots[i].batch = 0 /\ slots[j].batch = 0
       /\ slots[i].src = slots[j].src
  /\ Len(responses[Len(responses)].img) = 1

\* C14 (missing fallback is rejected before any work): for a request without
\* a fallback breakpoint every processImageRequest call has thrown, no
\* transform was started, getOrCreate was never called, no factory ran, and
\* the cache store holds what it held before.
C14_MissingFallbackRejected ==
  ~HasFallback(req) =>
    /\ \A i \in DOMAIN responses : responses[i].state = "threw"
    /\ phase = "idle" /\ slots = <<>>
    /\ calls = <<>>
    /\ data = data0
    /\ statsGeneratedUrls = NoStats

\* A call for a request without a fallback breakpoint has thrown.
C14_Witness ==
  /\ ~HasFallback(req)
  /\ \E i \in DOMAIN responses : responses[i].state = "threw"

\* The position in request.breakpoints of the breakpoint of a transform.
SlotBreakpoint(r, slot) ==
  IF slot.batch = 0 THEN fallbackBreakpoint(r) ELSE sourceBreakpoints(r)[slot.batch]

\* C17, as claimed (sequential ordering): with sequential = true at most one transform
\* is in flight, a transform starts only when the transforms of the
\* breakpoints listed earlier in request.breakpoints have all completed, and
\* the transforms of one breakpoint start in pixelDensities order.
C17_SequentialOrdering ==
  (phase = "running" /\ req.sequential) =>
    /\ Cardinality({i \in DOMAIN slots : Running(i)}) <= 1
    /\ \A i, j \in DOMAIN slots :
         ( /\ ~Idle(j)
           /\ \/ SlotBreakpoint(req, slots[i]) < SlotBreakpoint(req, slots[j])
              \/ (slots[i].batch = slots[j].batch /\ i < j) )
         => Done(i)

\* C17, amended (sequential ordering, fallback last): with sequential = true
\* at most one transform is in flight, and a transform starts only when
\* every transform before it has completed, in this order: the source
\* breakpoints as listed in request.breakpoints, each with its densities in
\* pixelDensities order, and after them the fallback breakpoint's, wherever
\* the fallback is listed.
C17_SequentialSourcesFirst ==
  (phase = "running" /\ req.sequential) =>
    /\ Cardinality({i \in DOMAIN slots : Running(i)}) <= 1
    /\ \A i, j \in DOMAIN slots :
         ( /\ ~Idle(j)
           /\ \/ /\ slots[i].batch # 0 /\ slots[j].batch # 0
                 /\ SlotBreakpoint(req, slots[i]) < SlotBreakpoint(req, slots[j])
              \/ (slots[i].batch # 0 /\ slots[j].batch = 0)
              \/ (slots[i].batch = slots[j].batch /\ i < j) )
         => Done(i)

\* A sequential call for a request that lists the fallback first, whose
\* fallback transform is in flight after the source transforms completed.
C17_Witness ==
  /\ phase = "running" /\ req.sequential
  /\ fallbackBreakpoint(req) = 1 /\ sourceBreakpoints(req) # <<>>
  /\ \E j \in DOMAIN slots : slots[j].batch = 0 /\ Running(j)
  /\ \A i \in DOMAIN slots : slots[i].batch # 0 => Done(i)

----------------------------------------------------------------------------
\* Properties of the cache keys (checked under SpecKey).

\* C18 (cache key is a function of the image bytes): the key of every
\* getOrCreate call of a transform is sha256(bytes of the input image) "@"
\* actualWidth ":", and the same transform of a request with any other
\* input image, on any content of the files, has the same key exactly when
\* the bytes of the two input images are the same.
C18_KeyFromBytes ==
  \A i \in DOMAIN slots :
    slots[i].call # 0 =>
      LET key == calls[slots[i].call].key IN
      /\ key = Hex(Sha256(inputImageBytes(req, files))) \o "@"
                 \o ToString(SlotWidth(req, slots[i])) \o ":"
      /\ \A input \in InputImages, fs \in FileSystems :
           LET other == [req EXCEPT !.inputImage = input]
           IN (inputImageBytes(other, fs) = inputImageBytes(req, files))
                = (SlotKey(other, slots[i]) = key)

====
